---------------------------- MODULE Spec2Model ----------------------------
(***************************************************************************)
(* text2num-rs, src/lang/mod.rs: the language interpretation contract      *)
(* (trait LangInterpreter with its default methods format_and_value,       *)
(* format_decimal_and_value, exec_group, basic_annotate), the Language     *)
(* dispatcher enum generated by declare_languages!, and the registry       *)
(* lookup get_interpreter_for.                                             *)
(*                                                                         *)
(* crate::digit_string::DigitString, crate::error::Error and the language  *)
(* modules de, es, en, fr, it, nl, pt are not part of the file; they are   *)
(* modelled from the specification (a validated digit accumulator and      *)
(* small per-language rule tables).                                        *)
(*                                                                         *)
(* Text is a sequence of one-character strings.  An f64 is the exact       *)
(* rational [num, den] it approximates (the digit strings of the model are *)
(* far below 2^53).                                                        *)
(***************************************************************************)
EXTENDS Integers, Sequences, FiniteSets, TLC

VARIABLES
    features,    \* cargo features the crate is built with (#[cfg(feature = ..)])
    lang,        \* Option<Language>: the interpreter value the caller holds
    last,        \* the caller's last call of the registry or of a contract method
    pc,          \* per thread: position of its exec_group call
    group,       \* per thread: the word sequence handed to exec_group
    rest,        \* per thread: what the iterator `group` has not yielded yet
    b,           \* per thread: the local `b` of exec_group
    incomplete,  \* per thread: the local `incomplete` of exec_group
    calls,       \* per thread: the self.apply calls made so far, in order
    result,      \* per thread: what exec_group returned
    rendered,    \* per thread: the format_and_value calls on the result
    decimal      \* per thread: the last format_decimal_and_value call

vars == <<features, lang, last, pc, group, rest, b, incomplete,
          calls, result, rendered, decimal>>

---------------------------------------------------------------------------
(* Bounds of the model.                                                    *)

\* longest word group handed to exec_group by a single caller
MaxLen == 3
\* longest word group handed to exec_group by each of two concurrent callers
MaxConcLen == 2
\* longest word group in the specification that ranges over every build
MaxBuildLen == 1
\* longest run of decimal words folded into a decimal part
MaxDecLen == 2

---------------------------------------------------------------------------
(* Option, Result, Error, MorphologicalMarker.                             *)

None == [tag |-> "None"]
Some(x) == [tag |-> "Some", val |-> x]
Ok(x) == [tag |-> "Ok", val |-> x]
Err(e) == [tag |-> "Err", err |-> e]
Unit == <<>>

\* a call that reached unimplemented!(): the panic unwinds, nothing is returned
Unimplemented == [tag |-> "Panic"]
\* a call that returned x
Returned(x) == [tag |-> "Returned", val |-> x]

Errors == {"NotANumber", "Incomplete", "Overlap", "Inconsistent"}

Ordinal(suffix) == [kind |-> "Ordinal", suffix |-> suffix]
Fraction(suffix) == [kind |-> "Fraction", suffix |-> suffix]
MarkerNone == [kind |-> "None", suffix |-> <<>>]

is_ordinal(m) == m.kind = "Ordinal"
is_fraction(m) == m.kind = "Fraction"
is_none(m) == m.kind = "None"

---------------------------------------------------------------------------
(* DigitString: the digit accumulator.                                     *)
(*   digits    the decimal digits, most significant first                  *)
(*   committed which positions a word has written                          *)
(*   scale     the last scale applied (0: none yet)                        *)
(*   valid     FALSE once a scale word was left without multiplicand       *)

DigitString_new ==
    [digits |-> <<>>, committed |-> <<>>, scale |-> 0, valid |-> TRUE,
     marker |-> MarkerNone]

is_empty(d) == d.digits = <<>>

Zeroes(n) == [i \in 1..n |-> 0]
Frees(n) == [i \in 1..n |-> FALSE]

\* place digit `dg` at position `k` (0: units, 1: tens); commits only if valid
DigitString_put(d, dg, k) ==
    LET n == Len(d.digits)
        at == n - k
    IN  IF ~d.valid THEN [res |-> Err("Inconsistent"), b |-> d]
        ELSE IF n = 0
        THEN [res |-> Ok(Unit),
              b |-> [d EXCEPT !.digits = <<dg>> \o Zeroes(k),
                              !.committed = <<TRUE>> \o Frees(k)]]
        ELSE IF k >= n THEN [res |-> Err("Inconsistent"), b |-> d]
        ELSE IF d.committed[at] THEN [res |-> Err("Overlap"), b |-> d]
        ELSE IF \E i \in (at + 1)..n : d.committed[i]
        THEN [res |-> Err("Inconsistent"), b |-> d]
        ELSE [res |-> Ok(Unit),
              b |-> [d EXCEPT !.digits[at] = dg, !.committed[at] = TRUE]]

\* multiply by 10^n: scales must come in descending magnitude
DigitString_shift(d, n) ==
    IF ~d.valid \/ is_empty(d) \/ (d.scale # 0 /\ n >= d.scale)
    THEN [res |-> Err("Inconsistent"), b |-> d]
    ELSE [res |-> Ok(Unit),
          b |-> [d EXCEPT !.digits = @ \o Zeroes(n),
                          !.committed = @ \o Frees(n),
                          !.scale = n]]

\* append one digit (the decimal part is spelled digit by digit)
DigitString_push(d, dg) ==
    [res |-> Ok(Unit),
     b |-> [d EXCEPT !.digits = Append(@, dg), !.committed = Append(@, TRUE)]]

RECURSIVE DigitsValue(_)
DigitsValue(ds) ==
    IF ds = <<>> THEN 0
    ELSE 10 * DigitsValue(SubSeq(ds, 1, Len(ds) - 1)) + ds[Len(ds)]

RECURSIVE Pow10(_)
Pow10(n) == IF n = 0 THEN 1 ELSE 10 * Pow10(n - 1)

\* integral value extraction
DigitString_parse(d) == DigitsValue(d.digits)

\* decimal-tail value extraction: digits / 10^digit-count
DigitString_parse_decimal(d) ==
    [num |-> DigitsValue(d.digits), den |-> Pow10(Len(d.digits))]

DecimalChars == <<"0", "1", "2", "3", "4", "5", "6", "7", "8", "9">>

\* impl Display for DigitString: the digits, one character each
DigitString_fmt(d) == [i \in 1..Len(d.digits) |-> DecimalChars[d.digits[i] + 1]]

\* `n as f64`, and f64 addition
AsF64(n) == [num |-> n, den |-> 1]
AddF64(x, y) == [num |-> x.num * y.den + y.num * x.den, den |-> x.den * y.den]


---------------------------------------------------------------------------
(* The language modules (de, es, en, fr, it, nl, pt): stateless rule       *)
(* tables.  A lexicon entry says what a word does to the accumulator:      *)
(*   unit   write digit at the units position, attach the word's marker    *)
(*   tens   write digit at the tens position                               *)
(*   scale  multiply by 10^n; `alone` when the word is a number by itself  *)
(*   link   glue inside a number: valid only after tens or a scale         *)

UnitWord(dg, m) == [kind |-> "unit", digit |-> dg, n |-> 0, alone |-> FALSE, marker |-> m]
TensWord(dg) == [kind |-> "tens", digit |-> dg, n |-> 1, alone |-> FALSE, marker |-> MarkerNone]
ScaleWord(n, alone) == [kind |-> "scale", digit |-> 1, n |-> n, alone |-> alone, marker |-> MarkerNone]
LinkWord == [kind |-> "link", digit |-> 0, n |-> 0, alone |-> FALSE, marker |-> MarkerNone]

German ==
    [lex |-> ("zwei" :> UnitWord(2, MarkerNone)) @@ ("und" :> LinkWord),
     sep |-> <<"komma", ",">>, linking |-> {"und"}]
Spanish ==
    [lex |-> ("dos" :> UnitWord(2, MarkerNone)) @@ ("y" :> LinkWord),
     sep |-> <<"coma", ",">>, linking |-> {"y"}]
English ==
    [lex |-> ("zero" :> UnitWord(0, MarkerNone)) @@ ("two" :> UnitWord(2, MarkerNone))
             @@ ("five" :> UnitWord(5, MarkerNone)) @@ ("twenty" :> TensWord(2))
             @@ ("hundred" :> ScaleWord(2, FALSE)) @@ ("and" :> LinkWord)
             @@ ("second" :> UnitWord(2, Ordinal(<<"n", "d">>)))
             @@ ("fifths" :> UnitWord(5, Fraction(<<"t", "h", "s">>))),
     sep |-> <<"point", ".">>, linking |-> {"and", "plus", "is", "uh"}]
French ==
    [lex |-> ("deux" :> UnitWord(2, MarkerNone)) @@ ("cent" :> ScaleWord(2, TRUE))
             @@ ("et" :> LinkWord) @@ ("second" :> UnitWord(2, Ordinal(<<"d">>))),
     sep |-> <<"virgule", ",">>, linking |-> {"et"}]
Italian ==
    [lex |-> ("due" :> UnitWord(2, MarkerNone)) @@ ("e" :> LinkWord),
     sep |-> <<"virgola", ",">>, linking |-> {"e"}]
Dutch ==
    [lex |-> ("twee" :> UnitWord(2, MarkerNone)) @@ ("en" :> LinkWord),
     sep |-> <<"komma", ",">>, linking |-> {"en"}]
Portuguese ==
    [lex |-> ("dois" :> UnitWord(2, MarkerNone)) @@ ("e" :> LinkWord),
     sep |-> <<"virgula", ",">>, linking |-> {"e"}]

\* the concrete language types, by name
Module(l) ==
    CASE l = "German" -> German
      [] l = "Spanish" -> Spanish
      [] l = "English" -> English
      [] l = "French" -> French
      [] l = "Italian" -> Italian
      [] l = "Dutch" -> Dutch
      [] l = "Portuguese" -> Portuguese

\* <l as LangInterpreter>::apply
Lang_apply(l, num_func, d) ==
    LET lex == Module(l).lex IN
    IF num_func \notin DOMAIN lex \/ ~is_none(d.marker)
    THEN [res |-> Err("NotANumber"), b |-> d]
    ELSE LET e == lex[num_func] IN
         CASE e.kind = "unit" ->
                LET r == DigitString_put(d, e.digit, 0) IN
                IF r.res = Ok(Unit)
                THEN [res |-> r.res, b |-> [r.b EXCEPT !.marker = e.marker]]
                ELSE r
           [] e.kind = "tens" -> DigitString_put(d, e.digit, 1)
           [] e.kind = "scale" ->
                IF ~is_empty(d) THEN DigitString_shift(d, e.n)
                ELSE IF e.alone
                THEN DigitString_shift(DigitString_put(d, 1, 0).b, e.n)
                ELSE [res |-> Err("Incomplete"), b |-> [d EXCEPT !.valid = FALSE]]
           [] e.kind = "link" ->
                IF Len(d.digits) < 2 \/ ~d.valid
                THEN [res |-> Err("NotANumber"), b |-> d]
                ELSE [res |-> Err("Incomplete"), b |-> d]

\* <l as LangInterpreter>::apply_decimal: one digit per word
Lang_apply_decimal(l, decimal_func, d) ==
    LET lex == Module(l).lex IN
    IF decimal_func \in DOMAIN lex
       /\ lex[decimal_func].kind = "unit" /\ is_none(lex[decimal_func].marker)
    THEN DigitString_push(d, lex[decimal_func].digit)
    ELSE [res |-> Err("NotANumber"), b |-> d]

\* <l as LangInterpreter>::get_morph_marker
Lang_get_morph_marker(l, word) ==
    IF word \in DOMAIN Module(l).lex THEN Module(l).lex[word].marker ELSE MarkerNone

\* <l as LangInterpreter>::check_decimal_separator
Lang_check_decimal_separator(l, word) ==
    IF word = Module(l).sep[1] THEN Some(Module(l).sep[2]) ELSE None

\* <l as LangInterpreter>::is_linking
Lang_is_linking(l, word) == word \in Module(l).linking

---------------------------------------------------------------------------
(* trait LangInterpreter: the default methods.                             *)

\* a format_and_value that echoes the suffix of any marker, Fraction included
format_and_value_any_marker(d) ==
    [text |-> DigitString_fmt(d) \o d.marker.suffix,
     value |-> AsF64(DigitString_parse(d))]

\* fn format_and_value(&self, b: &DigitString) -> (String, f64)
format_and_value(d) ==
    LET val == AsF64(DigitString_parse(d)) IN
    IF is_ordinal(d.marker)
    THEN [text |-> DigitString_fmt(d) \o d.marker.suffix, value |-> val]
    ELSE [text |-> DigitString_fmt(d), value |-> val]

\* a format_decimal_and_value that reads the decimals as an integer (parse for
\* parse_decimal)
format_decimal_and_value_parse(int, dec, sep) ==
    [text |-> DigitString_fmt(int) \o <<sep>> \o DigitString_fmt(dec),
     value |-> AddF64(AsF64(DigitString_parse(int)), AsF64(DigitString_parse(dec)))]

\* fn format_decimal_and_value(&self, int, dec, sep) -> (String, f64)
format_decimal_and_value(int, dec, sep) ==
    LET value == AddF64(AsF64(DigitString_parse(int)), DigitString_parse_decimal(dec)) IN
    [text |-> DigitString_fmt(int) \o <<sep>> \o DigitString_fmt(dec), value |-> value]

\* fn basic_annotate<T: BasicAnnotate>(&self, _tokens: &mut Vec<T>) {}
basic_annotate(tokens) == tokens


---------------------------------------------------------------------------
(* declare_languages!: the registered languages, in order.                 *)

Languages ==
    << [feature |-> "de", module |-> "de", name |-> "German", function |-> "german"],
       [feature |-> "es", module |-> "es", name |-> "Spanish", function |-> "spanish"],
       [feature |-> "en", module |-> "en", name |-> "English", function |-> "english"],
       [feature |-> "fr", module |-> "fr", name |-> "French", function |-> "french"],
       [feature |-> "it", module |-> "it", name |-> "Italian", function |-> "italian"],
       [feature |-> "nl", module |-> "nl", name |-> "Dutch", function |-> "dutch"],
       [feature |-> "pt", module |-> "pt", name |-> "Portuguese", function |-> "portugese"] >>

FeatureNames == {Languages[i].feature : i \in DOMAIN Languages}

\* the entries #[cfg(feature = $feature)] keeps in this build
Enabled == {i \in DOMAIN Languages : Languages[i].feature \in features}

\* pub enum Language: one variant per enabled entry
Variants == {Languages[i].name : i \in Enabled}

\* impl Language { pub fn $function() -> Self }: the constructors of this build
Constructors == {Languages[i].function : i \in Enabled}
Language_new(function) ==
    LET i == CHOOSE i \in Enabled : Languages[i].function = function
    IN  Languages[i].name

---------------------------------------------------------------------------
(* impl LangInterpreter for Language: each method matches on self, one arm *)
(* per enabled entry forwarding to the variant's language, then            *)
(* `_ => unimplemented!()`.                                                *)

\* a dispatcher whose every arm forwards to the first registered language
Language_apply_first_arm(self, num_func, d) ==
    IF self \in Variants THEN Returned(Lang_apply(Languages[1].name, num_func, d))
    ELSE Unimplemented

\* a dispatcher that lacks the arm of the last registered language
Language_apply_missing_arm(self, num_func, d) ==
    IF self \in Variants \ {Languages[Len(Languages)].name}
    THEN Lang_apply(self, num_func, d)
    ELSE Unimplemented

Language_apply(self, num_func, d) ==
    IF self \in Variants THEN Returned(Lang_apply(self, num_func, d)) ELSE Unimplemented

Language_apply_decimal(self, decimal_func, d) ==
    IF self \in Variants THEN Returned(Lang_apply_decimal(self, decimal_func, d)) ELSE Unimplemented

Language_get_morph_marker(self, word) ==
    IF self \in Variants THEN Returned(Lang_get_morph_marker(self, word)) ELSE Unimplemented

Language_check_decimal_separator(self, word) ==
    IF self \in Variants THEN Returned(Lang_check_decimal_separator(self, word)) ELSE Unimplemented

Language_format_and_value(self, d) ==
    IF self \in Variants THEN Returned(format_and_value(d)) ELSE Unimplemented

Language_format_decimal_and_value(self, int, dec, sep) ==
    IF self \in Variants THEN Returned(format_decimal_and_value(int, dec, sep)) ELSE Unimplemented

Language_is_linking(self, word) ==
    IF self \in Variants THEN Returned(Lang_is_linking(self, word)) ELSE Unimplemented

Language_basic_annotate(self, tokens) ==
    IF self \in Variants THEN Returned(basic_annotate(tokens)) ELSE Unimplemented

---------------------------------------------------------------------------
(* pub fn get_interpreter_for(language_code: &str) -> Option<Language>:    *)
(* the first enabled arm whose stringify!($module) equals the code.        *)

\* a lookup keyed by the constructor's name instead of the module's
get_interpreter_for_function(language_code) ==
    LET hits == {i \in Enabled : Languages[i].function = language_code}
    IN  IF hits = {} THEN None
        ELSE Some(Languages[CHOOSE i \in hits : \A j \in hits : i <= j].name)

get_interpreter_for(language_code) ==
    LET hits == {i \in Enabled : Languages[i].module = language_code}
    IN  IF hits = {} THEN None
        ELSE Some(Languages[CHOOSE i \in hits : \A j \in hits : i <= j].name)


---------------------------------------------------------------------------
(* fn exec_group(&self, group: I) -> Result<DigitString, Error>, in three  *)
(* pieces: the locals, the match on what self.apply returned, the final    *)
(* if.                                                                     *)

\* locals that start with the flag raised
exec_locals_flag_set == [b |-> DigitString_new, incomplete |-> TRUE]

\* let mut b = DigitString::new(); let mut incomplete: bool = false;
exec_locals == [b |-> DigitString_new, incomplete |-> FALSE]

\* a match that swallows every error as "incomplete"
exec_match_swallow(res) ==
    IF res = Ok(Unit) THEN [return |-> FALSE, incomplete |-> FALSE]
    ELSE [return |-> FALSE, incomplete |-> TRUE]

\* a match that returns on every error, Incomplete included
exec_match_strict(res) ==
    IF res = Ok(Unit) THEN [return |-> FALSE, incomplete |-> FALSE]
    ELSE [return |-> TRUE, with |-> res]

\* incomplete = match self.apply(token, &mut b) { .. }
exec_match(res) ==
    CASE res = Err("Incomplete") -> [return |-> FALSE, incomplete |-> TRUE]
      [] res = Ok(Unit) -> [return |-> FALSE, incomplete |-> FALSE]
      [] OTHER -> [return |-> TRUE, with |-> res]

\* a final if that forgets the flag
exec_finish_unchecked(inc, d) == Ok(d)

\* if incomplete { Err(Error::Incomplete) } else { Ok(b) }
exec_finish(inc, d) == IF inc THEN Err("Incomplete") ELSE Ok(d)

---------------------------------------------------------------------------
(* The callers.                                                            *)

Threads == {"t1", "t2"}

SeqsUpTo(S, n) == UNION {[1..k -> S] : k \in 0..n}

\* language codes a caller may ask for: the seven registered ones and others
Codes == {"de", "es", "en", "fr", "it", "nl", "pt"}
OtherCodes == {"xx", "EN", "english", ""}

ExecWords == {"two", "twenty", "hundred", "and", "second", "fifths", "cent"}
ConcWords == {"two", "twenty", "and"}
BuildWords == {"two", "deux"}
DecimalWords == {"zero", "five", "deux"}
SeparatorWords == {"point", "virgule", "komma"}

ExecGroups == SeqsUpTo(ExecWords, MaxLen)
ConcGroups == SeqsUpTo(ConcWords, MaxConcLen)
BuildGroups == SeqsUpTo(BuildWords, MaxBuildLen)
DecimalGroups == SeqsUpTo(DecimalWords, MaxDecLen)

Methods ==
    {"apply", "apply_decimal", "get_morph_marker", "check_decimal_separator",
     "format_and_value", "format_decimal_and_value", "is_linking", "basic_annotate"}

Token(w) == [text |-> w, nan |-> FALSE]

\* one contract method called on the dispatcher
Invoke(self, m, w, d) ==
    CASE m = "apply" -> Language_apply(self, w, d)
      [] m = "apply_decimal" -> Language_apply_decimal(self, w, d)
      [] m = "get_morph_marker" -> Language_get_morph_marker(self, w)
      [] m = "check_decimal_separator" -> Language_check_decimal_separator(self, w)
      [] m = "format_and_value" -> Language_format_and_value(self, d)
      [] m = "format_decimal_and_value" ->
            Language_format_decimal_and_value(self, d, d, ".")
      [] m = "is_linking" -> Language_is_linking(self, w)
      [] m = "basic_annotate" -> Language_basic_annotate(self, <<Token(w)>>)

\* the decimal part: apply_decimal folded over the words after the separator
RECURSIVE decimal_group(_, _, _)
decimal_group(self, ws, d) ==
    IF ws = <<>> THEN Returned([res |-> Ok(Unit), b |-> d])
    ELSE LET r == Language_apply_decimal(self, Head(ws), d) IN
         IF r = Unimplemented \/ r.val.res # Ok(Unit) THEN r
         ELSE decimal_group(self, Tail(ws), r.val.b)

TypeOK ==
    /\ features \subseteq FeatureNames
    /\ lang = None \/ (lang.tag = "Some" /\ lang.val \in Variants)
    /\ \A t \in Threads :
        /\ pc[t] \in {"idle", "loop", "done", "panicked"}
        /\ incomplete[t] \in BOOLEAN
        /\ Len(calls[t]) + Len(rest[t]) = Len(group[t])
        /\ pc[t] = "done" =>
              \/ result[t].tag = "Ok"
              \/ result[t].tag = "Err" /\ result[t].err \in Errors

InitIn(builds) ==
    /\ features \in builds
    /\ lang = None
    /\ last = None
    /\ pc = [t \in Threads |-> "idle"]
    /\ group = [t \in Threads |-> <<>>]
    /\ rest = [t \in Threads |-> <<>>]
    /\ b = [t \in Threads |-> DigitString_new]
    /\ incomplete = [t \in Threads |-> FALSE]
    /\ calls = [t \in Threads |-> <<>>]
    /\ result = [t \in Threads |-> None]
    /\ rendered = [t \in Threads |-> <<>>]
    /\ decimal = [t \in Threads |-> None]

Idle == \A t \in Threads : pc[t] = "idle"

\* the caller asks the registry for an interpreter
Lookup(code) ==
    /\ Idle
    /\ last' = [method |-> "get_interpreter_for", word |-> code,
                 out |-> Returned(get_interpreter_for(code))]
    /\ lang' = get_interpreter_for(code)
    /\ UNCHANGED <<features, pc, group, rest, b, incomplete, calls, result,
                   rendered, decimal>>

\* the caller builds an interpreter with a constructor: Language::english()
Construct(function) ==
    /\ Idle
    /\ function \in Constructors
    /\ last' = [method |-> "new", word |-> function,
                 out |-> Returned(Language_new(function))]
    /\ lang' = Some(Language_new(function))
    /\ UNCHANGED <<features, pc, group, rest, b, incomplete, calls,
                   result, rendered, decimal>>

\* the accumulator the caller holds once exec_group returned: the one it
\* returned, or a fresh one
Held(t) == IF result[t].tag = "Ok" THEN result[t].val ELSE DigitString_new

\* the caller calls one contract method on the interpreter it holds
Call(t, words) ==
    /\ pc[t] = "done"
    /\ \E m \in Methods, w \in words :
          last' = [method |-> m, word |-> w, out |-> Invoke(lang.val, m, w, Held(t))]
    /\ pc' = IF last'.out = Unimplemented THEN [pc EXCEPT ![t] = "panicked"] ELSE pc
    /\ UNCHANGED <<features, lang, group, rest, b, incomplete, calls, result,
                   rendered, decimal>>

\* exec_group is entered with one of `groups`: its locals are created
ExecStart(t, groups) ==
    /\ lang # None
    /\ pc[t] = "idle"
    /\ pc' = [pc EXCEPT ![t] = "loop"]
    /\ \E g \in groups :
          /\ group' = [group EXCEPT ![t] = g]
          /\ rest' = [rest EXCEPT ![t] = g]
    /\ b' = [b EXCEPT ![t] = exec_locals.b]
    /\ incomplete' = [incomplete EXCEPT ![t] = exec_locals.incomplete]
    /\ calls' = [calls EXCEPT ![t] = <<>>]
    /\ UNCHANGED <<features, lang, last, result, rendered, decimal>>

\* one turn of the loop, on an accumulator every running call shares
ExecStep_shared(t) ==
    /\ pc[t] = "loop"
    /\ rest[t] # <<>>
    /\ LET token == Head(rest[t])
           call == Language_apply(lang.val, token, b[t])
           r == call.val
       IN  /\ rest' = [rest EXCEPT ![t] = Tail(@)]
           /\ IF call = Unimplemented
              THEN /\ pc' = [pc EXCEPT ![t] = "panicked"]
                   /\ UNCHANGED <<b, incomplete, calls, result>>
              ELSE /\ b' = [u \in Threads |-> IF pc[u] = "loop" THEN r.b ELSE b[u]]
                   /\ calls' = [calls EXCEPT ![t] =
                         Append(@, [word |-> token, on |-> b[t], res |-> r.res, b |-> r.b])]
                   /\ IF exec_match(r.res).return
                      THEN /\ result' = [result EXCEPT ![t] = exec_match(r.res).with]
                           /\ pc' = [pc EXCEPT ![t] = "done"]
                           /\ UNCHANGED incomplete
                      ELSE /\ incomplete' =
                                [incomplete EXCEPT ![t] = exec_match(r.res).incomplete]
                           /\ UNCHANGED <<pc, result>>
    /\ UNCHANGED <<features, lang, last, group, rendered, decimal>>

\* one turn of `for token in group`: the iterator yields a token, self.apply
\* interprets it on b, the match continues or returns the error
ExecStep(t) ==
    /\ pc[t] = "loop"
    /\ rest[t] # <<>>
    /\ LET token == Head(rest[t])
           call == Language_apply(lang.val, token, b[t])
           r == call.val
       IN  /\ rest' = [rest EXCEPT ![t] = Tail(@)]
           /\ IF call = Unimplemented
              THEN /\ pc' = [pc EXCEPT ![t] = "panicked"]
                   /\ UNCHANGED <<b, incomplete, calls, result>>
              ELSE /\ b' = [b EXCEPT ![t] = r.b]
                   /\ calls' = [calls EXCEPT ![t] =
                         Append(@, [word |-> token, on |-> b[t], res |-> r.res, b |-> r.b])]
                   /\ IF exec_match(r.res).return
                      THEN /\ result' = [result EXCEPT ![t] = exec_match(r.res).with]
                           /\ pc' = [pc EXCEPT ![t] = "done"]
                           /\ UNCHANGED incomplete
                      ELSE /\ incomplete' =
                                [incomplete EXCEPT ![t] = exec_match(r.res).incomplete]
                           /\ UNCHANGED <<pc, result>>
    /\ UNCHANGED <<features, lang, last, group, rendered, decimal>>

\* the iterator is exhausted: the final if
ExecReturn(t) ==
    /\ pc[t] = "loop"
    /\ rest[t] = <<>>
    /\ result' = [result EXCEPT ![t] = exec_finish(incomplete[t], b[t])]
    /\ pc' = [pc EXCEPT ![t] = "done"]
    /\ UNCHANGED <<features, lang, last, group, rest, b, incomplete, calls,
                   rendered, decimal>>

\* the caller renders the finished accumulator (at most twice)
Render(t) ==
    /\ pc[t] = "done"
    /\ result[t].tag = "Ok"
    /\ Len(rendered[t]) < 2
    /\ LET out == Language_format_and_value(lang.val, result[t].val)
       IN  /\ rendered' = [rendered EXCEPT ![t] = Append(@, out)]
           /\ pc' = IF out = Unimplemented THEN [pc EXCEPT ![t] = "panicked"] ELSE pc
    /\ UNCHANGED <<features, lang, last, group, rest, b, incomplete, calls,
                   result, decimal>>

\* the caller composes the finished accumulator with a decimal part: `sw` is
\* the separator word, `ws` the words after it
RenderDecimal(t, separators, decimals) ==
    /\ pc[t] = "done"
    /\ result[t].tag = "Ok"
    /\ decimal[t] = None
    /\ \E sw \in separators, ws \in decimals \ {<<>>} :
       LET sep == Language_check_decimal_separator(lang.val, sw)
           dec == decimal_group(lang.val, ws, DigitString_new)
       IN  /\ sep # Unimplemented /\ sep.val # None
           /\ dec # Unimplemented /\ dec.val.res = Ok(Unit)
           /\ decimal' = [decimal EXCEPT ![t] =
                 [int |-> result[t].val, dec |-> dec.val.b, sep |-> sep.val.val,
                  out |-> Language_format_decimal_and_value(
                              lang.val, result[t].val, dec.val.b, sep.val.val)]]
    /\ UNCHANGED <<features, lang, last, pc, group, rest, b, incomplete, calls,
                   result, rendered>>

---------------------------------------------------------------------------
(* Spec: one caller, the build with every feature.                         *)

Init == InitIn({FeatureNames})

Next ==
    \/ \E code \in Codes \cup {"xx"} : Lookup(code)
    \/ ExecStart("t1", ExecGroups)
    \/ ExecStep("t1")
    \/ ExecReturn("t1")
    \/ Render("t1")
    \/ RenderDecimal("t1", SeparatorWords, DecimalGroups)

Spec == Init /\ [][Next]_vars

(* SpecConc: two callers share one interpreter and run exec_group          *)
(* concurrently; a step of one interleaves with the steps of the other.    *)

NextConc ==
    \/ \E code \in Codes \cup {"xx"} : Lookup(code)
    \/ \E t \in Threads : ExecStart(t, ConcGroups)
    \/ \E t \in Threads : ExecStep(t)
    \/ \E t \in Threads : ExecReturn(t)

SpecConc == Init /\ [][NextConc]_vars

(* SpecBuilds: every build (every set of features), the registry, the      *)
(* constructors, every contract method of the dispatcher, exec_group.      *)

InitBuilds == InitIn(SUBSET FeatureNames)

NextBuilds ==
    \/ \E code \in Codes \cup OtherCodes : Lookup(code)
    \/ \E function \in Constructors : Construct(function)
    \/ Call("t1", BuildWords)
    \/ ExecStart("t1", BuildGroups)
    \/ ExecStep("t1")
    \/ ExecReturn("t1")

SpecBuilds == InitBuilds /\ [][NextBuilds]_vars


---------------------------------------------------------------------------
(* What the claims are stated against: the words of a group applied one    *)
(* after the other by the language itself (no dispatcher, no exec_group),  *)
(* never stopping; and text read back as a number.                         *)

RECURSIVE ApplyTrace(_, _, _)
ApplyTrace(l, ws, d) ==
    IF ws = <<>> THEN <<>>
    ELSE LET r == Lang_apply(l, Head(ws), d)
         IN  <<r>> \o ApplyTrace(l, Tail(ws), r.b)

TraceOf(t) == ApplyTrace(lang.val, group[t], DigitString_new)

Fatal(res) == res.tag = "Err" /\ res.err # "Incomplete"
FirstFatal(tr, i) == Fatal(tr[i].res) /\ \A j \in 1..(i - 1) : ~Fatal(tr[j].res)
NoFatal(tr) == \A i \in 1..Len(tr) : ~Fatal(tr[i].res)
FinalAcc(tr) == IF tr = <<>> THEN DigitString_new ELSE tr[Len(tr)].b

\* what one exec_group call returns when nothing else runs
Alone(l, ws) ==
    LET tr == ApplyTrace(l, ws, DigitString_new) IN
    IF ~NoFatal(tr) THEN tr[CHOOSE i \in 1..Len(tr) : FirstFatal(tr, i)].res
    ELSE IF tr # <<>> /\ tr[Len(tr)].res = Err("Incomplete") THEN Err("Incomplete")
    ELSE Ok(FinalAcc(tr))

CharDigit(c) == CHOOSE k \in 0..9 : DecimalChars[k + 1] = c
IsDigitChar(c) == \E k \in 0..9 : DecimalChars[k + 1] = c

RECURSIVE TextValue(_)
TextValue(cs) ==
    IF cs = <<>> THEN 0
    ELSE CharDigit(cs[Len(cs)]) + 10 * TextValue(SubSeq(cs, 1, Len(cs) - 1))

Running == {t \in Threads : pc[t] # "idle"}
Done == {t \in Threads : pc[t] = "done"}

---------------------------------------------------------------------------
\* C1: fail-fast.  If the word at position i is the first on which apply
\* returns an error other than Incomplete, exec_group never calls apply on a
\* word after position i, and it returns exactly that error.
C1_FailFast ==
    \A t \in Running :
        LET tr == TraceOf(t) IN
        \A i \in 1..Len(tr) :
            FirstFatal(tr, i) =>
                /\ Len(calls[t]) <= i
                /\ pc[t] = "done" =>
                     /\ result[t] = tr[i].res
                     /\ Len(calls[t]) = i
                     /\ \A j \in 1..i : calls[t][j].word = group[t][j]
                     /\ Len(rest[t]) = Len(group[t]) - i

\* a three-word group whose second word is rejected with Overlap: the call
\* returned that error after two apply calls, the third word still unread
C1_Witness ==
    /\ pc["t1"] = "done"
    /\ Len(group["t1"]) = 3
    /\ Len(calls["t1"]) = 2
    /\ calls["t1"][1].res = Ok(Unit)
    /\ result["t1"] = Err("Overlap")
    /\ Len(rest["t1"]) = 1

\* C2: dangling-number rejection.  A non-empty group on which no apply call
\* returns an error other than Incomplete and the last apply call returns
\* Incomplete makes exec_group return Err(Incomplete), and no accumulator.
C2_Dangling ==
    \A t \in Done :
        LET tr == TraceOf(t) IN
        (group[t] # <<>> /\ NoFatal(tr) /\ tr[Len(tr)].res = Err("Incomplete"))
            => (result[t] = Err("Incomplete") /\ Len(calls[t]) = Len(group[t]))

\* "hundred" alone, and a longer group left open by its last word
C2_Witness ==
    /\ pc["t1"] = "done"
    /\ lang = Some("English")
    /\ group["t1"] \in {<<"hundred">>, <<"two", "hundred", "and">>}
    /\ result["t1"] = Err("Incomplete")

\* C3 as stated: exec_group returns Ok(acc) exactly when every apply call over
\* the group returned Ok (no error at all, Incomplete on a non-final word
\* included), and then acc is the group applied word by word to an empty
\* accumulator.
C3_AsStated ==
    \A t \in Done :
        LET tr == TraceOf(t) IN
        /\ result[t].tag = "Ok" <=> \A i \in 1..Len(tr) : tr[i].res = Ok(Unit)
        /\ result[t].tag = "Ok" => result[t].val = FinalAcc(tr)

\* C3, amended: exec_group returns Ok(acc) exactly when no apply call over
\* the group returned an error other than Incomplete and the final call, if
\* any, returned Ok (Incomplete on a non-final word is tolerated); then every
\* word was applied exactly once, in order, and acc is the result of applying
\* them to an initially empty accumulator.
C3_Accepted ==
    \A t \in Done :
        LET tr == TraceOf(t) IN
        /\ result[t].tag = "Ok" <=>
              /\ NoFatal(tr)
              /\ tr = <<>> \/ tr[Len(tr)].res = Ok(Unit)
        /\ result[t].tag = "Ok" =>
              /\ result[t].val = FinalAcc(tr)
              /\ Len(calls[t]) = Len(group[t])
              /\ \A i \in 1..Len(calls[t]) :
                    /\ calls[t][i].word = group[t][i]
                    /\ calls[t][i].on = (IF i = 1 THEN DigitString_new ELSE calls[t][i - 1].b)

\* a group accepted although a word in its middle returned Incomplete
C3_Witness ==
    /\ pc["t1"] = "done"
    /\ result["t1"].tag = "Ok"
    /\ Len(calls["t1"]) = 3
    /\ calls["t1"][2].res = Err("Incomplete")
    /\ result["t1"].val.digits = <<2, 2>>

\* C10: on an empty group exec_group calls apply zero times and returns Ok
\* with the freshly created empty accumulator (no digits, marker None).
C10_EmptyGroup ==
    \A t \in Done :
        group[t] = <<>> =>
            /\ calls[t] = <<>>
            /\ result[t].tag = "Ok"
            /\ result[t].val.digits = <<>>
            /\ result[t].val.marker = MarkerNone
            /\ result[t].val = DigitString_new

C10_Witness ==
    /\ pc["t1"] = "done"
    /\ group["t1"] = <<>>
    /\ lang = Some("English")
    /\ result["t1"] = Ok(DigitString_new)


---------------------------------------------------------------------------
\* C9: concurrent exec_group calls on one shared interpreter.  Each call
\* works on an accumulator of its own, created empty, that no other call
\* writes (every apply finds the accumulator as the call's previous apply
\* left it), and under every interleaving each call returns what it returns
\* when run alone on its word sequence.
C9_Isolated ==
    \A t \in Running :
        /\ \A i \in 1..Len(calls[t]) :
              calls[t][i].on = (IF i = 1 THEN DigitString_new ELSE calls[t][i - 1].b)
        /\ pc[t] = "loop" =>
              b[t] = (IF calls[t] = <<>> THEN DigitString_new
                      ELSE calls[t][Len(calls[t])].b)
        /\ pc[t] = "done" => result[t] = Alone(lang.val, group[t])

\* both calls in flight at once, each having applied one word, on different
\* accumulators
C9_Witness ==
    /\ pc["t1"] = "loop" /\ pc["t2"] = "loop"
    /\ Len(calls["t1"]) = 1 /\ Len(calls["t2"]) = 1
    /\ rest["t1"] # <<>> /\ rest["t2"] # <<>>
    /\ b["t1"].digits = <<2, 0>>
    /\ b["t2"].digits = <<2>>

---------------------------------------------------------------------------
\* the language each code is registered under
Registered ==
    [de |-> "German", es |-> "Spanish", en |-> "English", fr |-> "French",
     it |-> "Italian", nl |-> "Dutch", pt |-> "Portuguese"]

\* the codes this build supports: the registered codes whose feature is on
Supported == {code \in DOMAIN Registered : code \in features}

\* C4: get_interpreter_for(code) returns Some(interpreter) for every supported
\* code (de, es, en, fr, it, nl, pt), the interpreter being the variant of the
\* language registered under that code, and None for every other string; the
\* caller holds what the lookup returned.
C4_Lookup ==
    /\ \A code \in Codes \cup OtherCodes :
          get_interpreter_for(code) =
              (IF code \in Supported THEN Some(Registered[code]) ELSE None)
    /\ features = FeatureNames => Supported = {"de", "es", "en", "fr", "it", "nl", "pt"}
    /\ (last # None /\ last.method = "get_interpreter_for") =>
          last.out.val = (IF last.word \in Supported
                          THEN Some(Registered[last.word]) ELSE None)

\* in the build with every feature, "pt" was looked up and gave Portuguese
C4_Witness ==
    /\ features = FeatureNames
    /\ last # None
    /\ last.method = "get_interpreter_for"
    /\ last.word = "pt"
    /\ lang = Some("Portuguese")

\* C6: nothing aborts the process.  For every Language value that can be
\* constructed (by get_interpreter_for or by a constructor) and every
\* contract method, the arm `_ => unimplemented!()` is not reached; a lookup
\* of an unsupported code is the normal result None; exec_group ends by
\* returning Ok or Err.
C6_NoAbort ==
    /\ \A t \in Threads : pc[t] # "panicked"
    /\ last # None => last.out # Unimplemented
    /\ lang # None =>
          \A m \in Methods, w \in BuildWords \cup {"point", "dogs"} :
              Invoke(lang.val, m, w, Held("t1")) # Unimplemented
    /\ \A function \in Constructors, m \in Methods :
          Invoke(Language_new(function), m, "two", DigitString_new) # Unimplemented
    /\ \A code \in (Codes \cup OtherCodes) \ Supported : get_interpreter_for(code) = None
    /\ \A t \in Done : result[t].tag \in {"Ok", "Err"}

\* a build with two features only: the caller holds Portuguese, exec_group
\* failed with an Err, then apply was called on the dispatcher
C6_Witness ==
    /\ features = {"en", "pt"}
    /\ lang = Some("Portuguese")
    /\ pc["t1"] = "done"
    /\ result["t1"] = Err("NotANumber")
    /\ last.method = "apply"
    /\ last.out.tag = "Returned"


---------------------------------------------------------------------------
\* the accumulators the caller has at hand, the words it may pass
AccsOf(t) == {b[t], Held(t)}
SomeWords == ExecWords \cup {"zero", "deux", "zwei", "point", "virgule", "dogs"}

---------------------------------------------------------------------------
C8_RenderDecimal ==
    \A t \in Done :
        decimal[t] # None =>
            LET int == decimal[t].int
                dec == decimal[t].dec
                out == decimal[t].out.val
                n == Len(int.digits)
                m == Len(dec.digits)
            IN  /\ Len(out.text) = n + 1 + m
                /\ \A i \in 1..n : CharDigit(out.text[i]) = int.digits[i]
                /\ out.text[n + 1] = decimal[t].sep
                /\ \A j \in 1..m : CharDigit(out.text[n + 1 + j]) = dec.digits[j]
                /\ out.value.den = Pow10(m)
                /\ out.value.num =
                      TextValue(SubSeq(out.text, 1, n)) * Pow10(m)
                      + TextValue(SubSeq(out.text, n + 2, n + 1 + m))
                /\ int = result[t].val /\ int = b[t]
                /\ m >= 1 /\ Len(dec.committed) = m /\ dec.marker = MarkerNone

\* "twenty second point zero five": text 22.05 (no "nd"), value 2205/100
C8_Witness ==
    /\ pc["t1"] = "done"
    /\ decimal["t1"] # None
    /\ decimal["t1"].int.marker = Ordinal(<<"n", "d">>)
    /\ decimal["t1"].out.val =
          [text |-> <<"2", "2", ".", "0", "5">>, value |-> [num |-> 2205, den |-> 100]]

============================================================================
